---- MODULE Spec2Model ----
(***************************************************************************)
(* A model of oboete: the application state machine Oboete (src/app.rs)    *)
(* and the page state machine Flashcards (src/flashcards.rs).              *)
(*                                                                         *)
(* Oboete::update handles one Message at a time and may return a Command,  *)
(* a one-shot background task whose result comes back as a Message.        *)
(* `tasks` holds the tasks in flight, `inbox` the result messages that the *)
(* runtime has not handed to update yet, `store` the rows of the database. *)
(*                                                                         *)
(* struct Oboete (app.rs 19-34) holds no Flashcards value: the two state   *)
(* machines share no state, and a behaviour drives one of them (`unit`).   *)
(***************************************************************************)
EXTENDS Integers, Sequences, FiniteSets, Bags, TLC

VARIABLES
    unit,                 \* which state machine the behaviour drives
    \* ---- struct Oboete and the window state it owns
    context_page,         \* Oboete.context_page
    show_context,         \* core.window.show_context
    context_title,        \* core.window.context_title
    header_title,         \* core.window.header_title
    nav_active,           \* the active item of Oboete.nav
    current_page,         \* Oboete.current_page
    db,                   \* Oboete.db : Option<OboeteDb>
    studysets,            \* Oboete.state.studysets
    new_studyset_name,    \* Oboete.state.new_studyset.name
    \* ---- the runtime and the database
    tasks,                \* bag of background tasks in flight
    inbox,                \* bag of result messages not handled yet
    store,                \* rows of the study-set table
    message,              \* the message (callback) handled last
    command,              \* the Command the last handler returned
    created,              \* CreateStudySet messages handled so far
    \* ---- struct Flashcards
    current_folder_id,
    flashcards,
    new_edit_flashcard,
    currently_studying_flashcard,
    currently_studying_flashcard_side,
    loaded_single,        \* a LoadedSingle filled the form and no reset followed
    fc_message,           \* the Message handled last by Flashcards::update
    commands              \* the Vec<Command> it returned

appvars == <<context_page, show_context, context_title, header_title, nav_active,
             current_page, db, studysets, new_studyset_name, tasks, inbox,
             store, message, command, created>>

fcvars == <<current_folder_id, flashcards, new_edit_flashcard,
            currently_studying_flashcard, currently_studying_flashcard_side,
            loaded_single, fc_message, commands>>

vars == <<unit, appvars, fcvars>>

\* ------------------------------------------------------------------------
\* Bounds of the model
\* ------------------------------------------------------------------------

\* CreateStudySet messages a behaviour may handle
MaxCreates == 1

\* length of a Vec<Flashcard> carried by a message
MaxLen == 2

\* ------------------------------------------------------------------------
\* Option<T>
\* ------------------------------------------------------------------------

None == <<>>

Some(x) == <<x>>

\* ------------------------------------------------------------------------
\* models.rs
\* ------------------------------------------------------------------------

StudySet(id, name, folders) == [id |-> id, name |-> name, folders |-> folders]

Flashcard(id, front, back, status) ==
    [id |-> id, front |-> front, back |-> back, status |-> status]

\* ------------------------------------------------------------------------
\* app.rs: pages, context pages, the nav bar
\* ------------------------------------------------------------------------

Page == {"StudySets", "AllFlashcards"}

ContextPage == {"About", "NewStudySet", "NewFolder", "NewFlashcard"}

\* ContextPage::title: the localised string of each page, by its message id
title(p) ==
    CASE p = "About"        -> "about"
      [] p = "NewStudySet"  -> "new-studyset"
      [] p = "NewFolder"    -> "new-folder"
      [] p = "NewFlashcard" -> "new-flashcard"

\* the two items init inserts into the nav bar: text and Page data
NavItems == {"Study Sets", "All Flashcards"}

NavData(id) == IF id = "Study Sets" THEN Some("StudySets") ELSE Some("AllFlashcards")

\* texts the user may type into the name field
Names == {"", "a"}

Urls == {"https://github.com/mariinkys/oboete"}

\* ------------------------------------------------------------------------
\* core::database (not part of the sources at hand): the three entry points
\* ------------------------------------------------------------------------

Ok(v) == [ok |-> TRUE, value |-> v]

Err == [ok |-> FALSE, value |-> <<>>]

\* OboeteDb::init() resolves to a connection
TheDb == "db"

\* get_all_studysets(db): the rows of the table, or an error; without a
\* connection only the error
GetAllStudysets(d) == IF d = None THEN {Err} ELSE {Ok(store), Err}

\* whether upsert_studyset(db, studyset) stores the study set: not without a
\* connection, and the database may fail
UpsertOutcomes(d) == IF d = None THEN {FALSE} ELSE {TRUE, FALSE}

\* upsert_studyset(db, studyset) on the rows `rows`: a study set without id
\* becomes a new row with a fresh id, one with an id replaces its row
UpsertRows(rows, s) ==
    IF s.id = None
    THEN Append(rows, StudySet(Some(Len(rows) + 1), s.name, s.folders))
    ELSE [i \in 1..Len(rows) |-> IF rows[i].id = s.id THEN s ELSE rows[i]]

\* ------------------------------------------------------------------------
\* Tasks and messages
\* ------------------------------------------------------------------------

\* `chain` names the CreateStudySet a task or message descends from: the
\* study set it sent to upsert and whether the upsert stored it; None for the
\* start-up chain.
Task(kind, d, studyset, chain) ==
    [kind |-> kind, db |-> d, studyset |-> studyset, chain |-> chain]

\* A result message; every message has all four fields so that the inbox can
\* hold them side by side: `db` is the payload of DbConnected and `result`
\* that of LoadedStudySets, and the other messages carry TheDb and Err there
\* unread.
ResultMsg(type, d, result, chain) ==
    [type |-> type, db |-> d, result |-> result, chain |-> chain]

One(x) == SetToBag({x})

\* ------------------------------------------------------------------------
\* Oboete::init
\* ------------------------------------------------------------------------

InitOboete ==
    /\ context_page = "About"
    /\ show_context = FALSE
    /\ context_title = ""
    /\ nav_active = "Study Sets"
    /\ header_title = "Study Sets"
    /\ current_page = "StudySets"
    /\ db = None
    /\ studysets = <<>>
    /\ new_studyset_name = ""
    /\ tasks = One(Task("connect", None, None, None))
    /\ inbox = EmptyBag
    /\ store = <<>>
    /\ message = [type |-> "init"]
    /\ command = Some(Task("connect", None, None, None))
    /\ created = 0

\* ------------------------------------------------------------------------
\* Oboete::update, one action per Message
\* ------------------------------------------------------------------------

\* a step of Oboete leaves the page alone
InOboete == unit = "Oboete" /\ UNCHANGED <<unit, fcvars>>

window == <<context_page, show_context, context_title>>

navigation == <<header_title, nav_active, current_page>>

LaunchUrl(url) ==
    /\ InOboete
    /\ message' = [type |-> "LaunchUrl", url |-> url]
    /\ command' = None
    /\ UNCHANGED <<window, navigation, db, studysets, new_studyset_name,
                   tasks, inbox, store, created>>

\* ToggleContextPage that closes the drawer on the same page instead of
\* negating show_context
ToggleContextPageCloses(p) ==
    /\ InOboete
    /\ IF context_page = p
       THEN /\ show_context' = FALSE
            /\ UNCHANGED context_page
       ELSE /\ context_page' = p
            /\ show_context' = TRUE
    /\ context_title' = title(p)
    /\ message' = [type |-> "ToggleContextPage", context_page |-> p]
    /\ command' = None
    /\ UNCHANGED <<navigation, db, studysets, new_studyset_name, tasks, inbox, store,
                   created>>

\* ToggleContextPage that negates show_context on either branch
ToggleContextPageAlwaysNegates(p) ==
    /\ InOboete
    /\ IF context_page = p
       THEN /\ show_context' = ~show_context
            /\ UNCHANGED context_page
       ELSE /\ context_page' = p
            /\ show_context' = ~show_context
    /\ context_title' = title(p)
    /\ message' = [type |-> "ToggleContextPage", context_page |-> p]
    /\ command' = None
    /\ UNCHANGED <<navigation, db, studysets, new_studyset_name, tasks, inbox, store,
                   created>>

ToggleContextPage(p) ==
    /\ InOboete
    /\ IF context_page = p
       THEN /\ show_context' = ~show_context
            /\ UNCHANGED context_page
       ELSE /\ context_page' = p
            /\ show_context' = TRUE
    /\ context_title' = title(p)
    /\ message' = [type |-> "ToggleContextPage", context_page |-> p]
    /\ command' = None
    /\ UNCHANGED <<navigation, db, studysets, new_studyset_name, tasks, inbox, store,
                   created>>

NewStudySetNameInput(value) ==
    /\ InOboete
    /\ new_studyset_name' = value
    /\ message' = [type |-> "NewStudySetNameInput", value |-> value]
    /\ command' = None
    /\ UNCHANGED <<window, navigation, db, studysets, tasks, inbox, store, created>>

\* the StudySet CreateStudySet hands to upsert_studyset
NewStudySet == StudySet(None, new_studyset_name, <<>>)

CreateStudySet ==
    /\ InOboete
    /\ created < MaxCreates
    /\ created' = created + 1
    /\ LET t == Task("upsert", db, Some(NewStudySet),
                     Some([studyset |-> NewStudySet, stored |-> FALSE]))
       IN  /\ tasks' = tasks (+) One(t)
           /\ command' = Some(t)
    /\ message' = [type |-> "CreateStudySet"]
    /\ UNCHANGED <<window, navigation, db, studysets, new_studyset_name, inbox, store>>

\* the runtime hands the result message m to update
Receive(m, type) ==
    /\ InOboete
    /\ m.type = type
    /\ inbox' = inbox (-) One(m)
    /\ message' = m
    /\ UNCHANGED created

\* DbConnected that stores the connection and returns no command
DbConnectedNoLoad(m) ==
    /\ Receive(m, "DbConnected")
    /\ db' = Some(m.db)
    /\ command' = None
    /\ UNCHANGED <<window, navigation, studysets, new_studyset_name, store, tasks>>

DbConnected(m) ==
    /\ Receive(m, "DbConnected")
    /\ db' = Some(m.db)
    /\ LET t == Task("load", db', None, m.chain)
       IN  /\ tasks' = tasks (+) One(t)
           /\ command' = Some(t)
    /\ UNCHANGED <<window, navigation, studysets, new_studyset_name, store>>

\* LoadedStudySets with both arms of the match clearing the list
LoadedStudySetsClears(m) ==
    /\ Receive(m, "LoadedStudySets")
    /\ studysets' = <<>>
    /\ command' = None
    /\ UNCHANGED <<window, navigation, db, new_studyset_name, tasks, store>>

\* LoadedStudySets with an Err arm that keeps the list
LoadedStudySetsKeepsOnErr(m) ==
    /\ Receive(m, "LoadedStudySets")
    /\ studysets' = IF m.result.ok THEN m.result.value ELSE studysets
    /\ command' = None
    /\ UNCHANGED <<window, navigation, db, new_studyset_name, tasks, store>>

LoadedStudySets(m) ==
    /\ Receive(m, "LoadedStudySets")
    /\ studysets' = IF m.result.ok THEN m.result.value ELSE <<>>
    /\ command' = None
    /\ UNCHANGED <<window, navigation, db, new_studyset_name, tasks, store>>

\* StudySetCreated that also pushes the new study set onto the list
StudySetCreatedAppends(m) ==
    /\ Receive(m, "StudySetCreated")
    /\ show_context' = FALSE
    /\ new_studyset_name' = ""
    /\ studysets' = Append(studysets, m.chain[1].studyset)
    /\ LET t == Task("load", db, None, m.chain)
       IN  /\ tasks' = tasks (+) One(t)
           /\ command' = Some(t)
    /\ UNCHANGED <<context_page, context_title, navigation, db, store>>

\* StudySetCreated that leaves the reload to somebody else
StudySetCreatedNoReload(m) ==
    /\ Receive(m, "StudySetCreated")
    /\ show_context' = FALSE
    /\ new_studyset_name' = ""
    /\ command' = None
    /\ UNCHANGED <<context_page, context_title, navigation, db, studysets, store,
                   tasks>>

StudySetCreated(m) ==
    /\ Receive(m, "StudySetCreated")
    /\ show_context' = FALSE
    /\ new_studyset_name' = ""
    /\ LET t == Task("load", db, None, m.chain)
       IN  /\ tasks' = tasks (+) One(t)
           /\ command' = Some(t)
    /\ UNCHANGED <<context_page, context_title, navigation, db, studysets, store>>

\* ------------------------------------------------------------------------
\* Background tasks: each runs to completion once and sends one message
\* ------------------------------------------------------------------------

\* init: Command::perform(OboeteDb::init(), DbConnected)
\* the task t runs to completion and leaves `tasks`
Finish(t, kind) ==
    /\ InOboete
    /\ t.kind = kind
    /\ tasks' = tasks (-) One(t)
    /\ UNCHANGED <<window, navigation, db, studysets, new_studyset_name,
                   message, command, created>>

CompleteConnect(t) ==
    /\ Finish(t, "connect")
    /\ inbox' = inbox (+) One(ResultMsg("DbConnected", TheDb, Err, t.chain))
    /\ UNCHANGED store

\* Command::perform(get_all_studysets(db), LoadedStudySets)
CompleteLoad(t) ==
    /\ Finish(t, "load")
    /\ \E r \in GetAllStudysets(t.db) :
        inbox' = inbox (+) One(ResultMsg("LoadedStudySets", TheDb, r, t.chain))
    /\ UNCHANGED store

\* an upsert task that reports back only when the study set was stored
CompleteUpsertDropsFailure(t) ==
    /\ Finish(t, "upsert")
    /\ \E done \in UpsertOutcomes(t.db) :
        /\ store' = IF done THEN UpsertRows(store, t.studyset[1]) ELSE store
        /\ inbox' = IF done
                    THEN inbox (+) One(ResultMsg("StudySetCreated", TheDb, Err,
                                 Some([studyset |-> t.studyset[1], stored |-> done])))
                    ELSE inbox

\* Command::perform(upsert_studyset(db, studyset), |_result| StudySetCreated)
CompleteUpsert(t) ==
    /\ Finish(t, "upsert")
    /\ \E done \in UpsertOutcomes(t.db) :
        /\ store' = IF done THEN UpsertRows(store, t.studyset[1]) ELSE store
        /\ inbox' = inbox (+) One(ResultMsg("StudySetCreated", TheDb, Err,
                                 Some([studyset |-> t.studyset[1], stored |-> done])))

\* ------------------------------------------------------------------------
\* Oboete::on_nav_select and update_titles
\* ------------------------------------------------------------------------

\* on_nav_select that activates the item and leaves current_page alone
on_nav_select_keeps_page(id) ==
    /\ InOboete
    /\ nav_active' = id
    /\ current_page' = current_page
    /\ header_title' = id
    /\ message' = [type |-> "on_nav_select", id |-> id]
    /\ command' = None
    /\ UNCHANGED <<window, db, studysets, new_studyset_name, tasks, inbox, store,
                   created>>

on_nav_select(id) ==
    /\ InOboete
    /\ nav_active' = id
    /\ current_page' = IF NavData(id) = None THEN "StudySets" ELSE NavData(id)[1]
    /\ header_title' = id
    /\ message' = [type |-> "on_nav_select", id |-> id]
    /\ command' = None
    /\ UNCHANGED <<window, db, studysets, new_studyset_name, tasks, inbox, store,
                   created>>

NextOboete ==
    \/ \E url \in Urls : LaunchUrl(url)
    \/ \E p \in ContextPage : ToggleContextPage(p)
    \/ \E value \in Names : NewStudySetNameInput(value)
    \/ CreateStudySet
    \/ \E m \in BagToSet(inbox) : DbConnected(m)
    \/ \E m \in BagToSet(inbox) : LoadedStudySets(m)
    \/ \E m \in BagToSet(inbox) : StudySetCreated(m)
    \/ \E t \in BagToSet(tasks) : CompleteConnect(t)
    \/ \E t \in BagToSet(tasks) : CompleteLoad(t)
    \/ \E t \in BagToSet(tasks) : CompleteUpsert(t)
    \/ \E id \in NavItems : on_nav_select(id)

\* ------------------------------------------------------------------------
\* flashcards.rs: the values messages carry
\* ------------------------------------------------------------------------

StudyActions == {"Bad", "Ok", "Good"}

CurrentFlashcardSide == {"Front", "Back"}

\* texts the user may type into the front and back fields
Texts == {"", "t"}

\* flashcards a message may carry: an unsaved one and a saved one
Cards ==
    { Flashcard(None, "t", "", 0),
      Flashcard(Some(1), "", "t", 3) }

CardIds == {c.id : c \in Cards}

\* every Vec<Flashcard> of at most MaxLen of these cards
CardLists == UNION {[1..n -> Cards] : n \in 0..MaxLen}

Elements(list) == {list[i] : i \in 1..Len(list)}

Command(type, arg) == [type |-> type, arg |-> arg]

\* utils::select_random_flashcard (not part of the sources at hand): some
\* element of the list, or None when the list is empty
SelectRandomFlashcard(list) ==
    IF list = <<>> THEN {None} ELSE {Some(list[i]) : i \in 1..Len(list)}

\* Option::unwrap_or
UnwrapOr(opt, default) == IF opt = None THEN default ELSE opt[1]

\* ------------------------------------------------------------------------
\* Flashcards::new
\* ------------------------------------------------------------------------

\* the empty form of CreateEditFlashcardState
EmptyForm == Flashcard(None, "", "", 0)

\* the card shown when there is nothing to study
ErrorCard == Flashcard(None, "Error", "Error", 0)

InitFlashcards ==
    /\ current_folder_id = 0
    /\ flashcards = <<>>
    /\ currently_studying_flashcard = ErrorCard
    /\ new_edit_flashcard = EmptyForm
    /\ currently_studying_flashcard_side = "Front"
    /\ loaded_single = FALSE
    /\ fc_message = [type |-> "new"]
    /\ commands = <<>>

\* ------------------------------------------------------------------------
\* Flashcards::update, one action per Message
\* ------------------------------------------------------------------------

\* a step of the page leaves Oboete alone
InFlashcards == unit = "Flashcards" /\ UNCHANGED <<unit, appvars>>

study == <<currently_studying_flashcard, currently_studying_flashcard_side>>

form == <<new_edit_flashcard, loaded_single>>

Upsert ==
    /\ InFlashcards
    /\ fc_message' = [type |-> "Upsert"]
    /\ commands' = << Command("UpsertFlashcard",
                              Flashcard(new_edit_flashcard.id,
                                        new_edit_flashcard.front,
                                        new_edit_flashcard.back,
                                        new_edit_flashcard.status)) >>
    /\ UNCHANGED <<current_folder_id, flashcards, form, study>>

\* Upserted that clears the texts of the form and keeps its id
UpsertedKeepsId ==
    /\ InFlashcards
    /\ fc_message' = [type |-> "Upserted"]
    /\ new_edit_flashcard' = Flashcard(new_edit_flashcard.id, "", "", 0)
    /\ loaded_single' = FALSE
    /\ commands' = << Command("LoadFlashcards", current_folder_id) >>
    /\ UNCHANGED <<current_folder_id, flashcards, study>>

Upserted ==
    /\ InFlashcards
    /\ fc_message' = [type |-> "Upserted"]
    /\ new_edit_flashcard' = Flashcard(None, "", "", 0)
    /\ loaded_single' = FALSE
    /\ commands' = << Command("LoadFlashcards", current_folder_id) >>
    /\ UNCHANGED <<current_folder_id, flashcards, study>>

LoadedSingle(flashcard) ==
    /\ InFlashcards
    /\ fc_message' = [type |-> "LoadedSingle", flashcard |-> flashcard]
    /\ new_edit_flashcard' = Flashcard(flashcard.id, flashcard.front,
                                       flashcard.back, flashcard.status)
    /\ loaded_single' = TRUE
    /\ commands' = <<>>
    /\ UNCHANGED <<current_folder_id, flashcards, study>>

SetFlashcards(cards) ==
    /\ InFlashcards
    /\ fc_message' = [type |-> "SetFlashcards", flashcards |-> cards]
    /\ flashcards' = cards
    /\ commands' = <<>>
    /\ UNCHANGED <<current_folder_id, form, study>>

ToggleCreatePage(flashcard) ==
    /\ InFlashcards
    /\ fc_message' = [type |-> "ToggleCreatePage", flashcard |-> flashcard]
    /\ IF flashcard = None
       THEN /\ new_edit_flashcard' = Flashcard(None, "", "", 0)
            /\ loaded_single' = FALSE
       ELSE UNCHANGED form
    /\ commands' = << Command("ToggleCreateFlashcardPage", flashcard) >>
    /\ UNCHANGED <<current_folder_id, flashcards, study>>

StudyFlashcards ==
    /\ InFlashcards
    /\ fc_message' = [type |-> "StudyFlashcards"]
    /\ commands' = << Command("OpenStudyFolderFlashcardsPage", None) >>
    /\ UNCHANGED <<current_folder_id, flashcards, form, study>>

ContextPageFrontInput(value) ==
    /\ InFlashcards
    /\ fc_message' = [type |-> "ContextPageFrontInput", value |-> value]
    /\ new_edit_flashcard' = [new_edit_flashcard EXCEPT !.front = value]
    /\ UNCHANGED loaded_single
    /\ commands' = <<>>
    /\ UNCHANGED <<current_folder_id, flashcards, study>>

ContextPageBackInput(value) ==
    /\ InFlashcards
    /\ fc_message' = [type |-> "ContextPageBackInput", value |-> value]
    /\ new_edit_flashcard' = [new_edit_flashcard EXCEPT !.back = value]
    /\ UNCHANGED loaded_single
    /\ commands' = <<>>
    /\ UNCHANGED <<current_folder_id, flashcards, study>>

\* the match on the StudyActions: the status a grade stands for
\* the grades numbered from 0
GradedFromZero(flashcard, action) ==
    CASE action = "Bad"  -> [flashcard EXCEPT !.status = 0]
      [] action = "Ok"   -> [flashcard EXCEPT !.status = 1]
      [] action = "Good" -> [flashcard EXCEPT !.status = 2]

Graded(flashcard, action) ==
    CASE action = "Bad"  -> [flashcard EXCEPT !.status = 1]
      [] action = "Ok"   -> [flashcard EXCEPT !.status = 2]
      [] action = "Good" -> [flashcard EXCEPT !.status = 3]

UpdateFlashcardStatus(flashcard, action) ==
    /\ InFlashcards
    /\ fc_message' = [type |-> "UpdateFlashcardStatus", flashcard |-> flashcard,
                      action |-> action]
    /\ commands' = << Command("UpdateFlashcardStatus", Graded(flashcard, action)) >>
    /\ UNCHANGED <<current_folder_id, flashcards, form, study>>

\* UpdatedStatus without the fallback: an empty list leaves the study card
UpdatedStatusKeepsCard(cards) ==
    /\ InFlashcards
    /\ fc_message' = [type |-> "UpdatedStatus", flashcards |-> cards]
    /\ flashcards' = cards
    /\ \E picked \in SelectRandomFlashcard(flashcards') :
        currently_studying_flashcard' = UnwrapOr(picked, currently_studying_flashcard)
    /\ commands' = <<>>
    /\ UNCHANGED <<current_folder_id, form, currently_studying_flashcard_side>>

\* UpdatedStatus that also turns the new card to its front
UpdatedStatusResetsSide(cards) ==
    /\ InFlashcards
    /\ fc_message' = [type |-> "UpdatedStatus", flashcards |-> cards]
    /\ flashcards' = cards
    /\ \E picked \in SelectRandomFlashcard(flashcards') :
        currently_studying_flashcard' =
            UnwrapOr(picked, Flashcard(None, "Error", "Error", 0))
    /\ currently_studying_flashcard_side' = "Front"
    /\ commands' = <<>>
    /\ UNCHANGED <<current_folder_id, form>>

UpdatedStatus(cards) ==
    /\ InFlashcards
    /\ fc_message' = [type |-> "UpdatedStatus", flashcards |-> cards]
    /\ flashcards' = cards
    /\ \E picked \in SelectRandomFlashcard(flashcards') :
        currently_studying_flashcard' =
            UnwrapOr(picked, Flashcard(None, "Error", "Error", 0))
    /\ commands' = <<>>
    /\ UNCHANGED <<current_folder_id, form, currently_studying_flashcard_side>>

SwapFlashcardSide ==
    /\ InFlashcards
    /\ fc_message' = [type |-> "SwapFlashcardSide"]
    /\ currently_studying_flashcard_side' =
          CASE currently_studying_flashcard_side = "Front" -> "Back"
            [] currently_studying_flashcard_side = "Back"  -> "Front"
    /\ commands' = <<>>
    /\ UNCHANGED <<current_folder_id, flashcards, form,
                   currently_studying_flashcard>>

\* Delete that returns no command
DeleteSilent(flashcard_id) ==
    /\ InFlashcards
    /\ fc_message' = [type |-> "Delete", flashcard_id |-> flashcard_id]
    /\ commands' = <<>>
    /\ UNCHANGED <<current_folder_id, flashcards, form, study>>

Delete(flashcard_id) ==
    /\ InFlashcards
    /\ fc_message' = [type |-> "Delete", flashcard_id |-> flashcard_id]
    /\ commands' = << Command("DeleteFlashcard", flashcard_id) >>
    /\ UNCHANGED <<current_folder_id, flashcards, form, study>>

Load ==
    /\ InFlashcards
    /\ fc_message' = [type |-> "Load"]
    /\ commands' = << Command("LoadFlashcards", current_folder_id) >>
    /\ UNCHANGED <<current_folder_id, flashcards, form, study>>

NextFlashcards ==
    \/ Upsert
    \/ Upserted
    \/ \E flashcard \in Cards : LoadedSingle(flashcard)
    \/ \E cards \in CardLists : SetFlashcards(cards)
    \/ \E flashcard \in {None} \cup {Some(c) : c \in Cards} : ToggleCreatePage(flashcard)
    \/ StudyFlashcards
    \/ \E value \in Texts : ContextPageFrontInput(value)
    \/ \E value \in Texts : ContextPageBackInput(value)
    \/ \E flashcard \in Cards \cup {ErrorCard}, action \in StudyActions :
          UpdateFlashcardStatus(flashcard, action)
    \/ \E cards \in CardLists : UpdatedStatus(cards)
    \/ SwapFlashcardSide
    \/ \E flashcard_id \in CardIds : Delete(flashcard_id)
    \/ Load

\* ------------------------------------------------------------------------
\* The specification
\* ------------------------------------------------------------------------

Init ==
    /\ unit \in {"Oboete", "Flashcards"}
    /\ InitOboete
    /\ InitFlashcards

Next == NextOboete \/ NextFlashcards

Spec == Init /\ [][Next]_vars

\* The application alone, with the scheduling of the runtime: the executor
\* runs every task it was given to completion, and the runtime hands every
\* result message to update.
InitApp == unit = "Oboete" /\ InitOboete /\ InitFlashcards

ChainTags ==
    {None} \cup {Some([studyset |-> StudySet(None, n, <<>>), stored |-> b]) :
                    n \in Names, b \in BOOLEAN}

Fairness ==
    /\ \A c \in ChainTags :
          WF_vars(\E t \in BagToSet(tasks) :
                     t.chain = c /\ (CompleteConnect(t) \/ CompleteLoad(t)
                                        \/ CompleteUpsert(t)))
    /\ \A c \in ChainTags :
          WF_vars(\E m \in BagToSet(inbox) :
                     m.chain = c /\ (DbConnected(m) \/ LoadedStudySets(m)
                                        \/ StudySetCreated(m)))

FairSpec == InitApp /\ [][NextOboete]_vars /\ Fairness

\* ------------------------------------------------------------------------
\* Properties
\* ------------------------------------------------------------------------

\* the names of the study sets of a list
NamesOf(list) == {list[i].name : i \in 1..Len(list)}

\* C1: once UpdatedStatus(cards) is handled the page holds exactly cards, and
\* the card being studied is one of cards, or the "Error" placeholder (no id,
\* status 0) when cards is empty.
C1_UpdatedStatusPicksFromCards ==
    fc_message.type = "UpdatedStatus" =>
        /\ flashcards = fc_message.flashcards
        /\ fc_message.flashcards # <<>> =>
              currently_studying_flashcard \in Elements(fc_message.flashcards)
        /\ fc_message.flashcards = <<>> =>
              currently_studying_flashcard =
                  [id |-> None, front |-> "Error", back |-> "Error", status |-> 0]

\* C1 witness: a list of two different cards, the second one picked
C1_Witness ==
    /\ fc_message.type = "UpdatedStatus"
    /\ Len(flashcards) = 2
    /\ flashcards[1] # flashcards[2]
    /\ currently_studying_flashcard = flashcards[2]

\* C2 as stated: whenever the LoadedStudySets that descends from a
\* CreateStudySet with name n has been handled, the list holds a study set
\* named n.
C2_ReloadShowsCreated ==
    (message.type = "LoadedStudySets" /\ message.chain # None) =>
        message.chain[1].studyset.name \in NamesOf(studysets)

\* C2 amended: it does when the upsert stored the study set and the reload
\* returned Ok; the study set then carries an id.
C2_ReloadShowsStored ==
    (/\ message.type = "LoadedStudySets"
     /\ message.chain # None
     /\ message.chain[1].stored
     /\ message.result.ok) =>
        \E i \in 1..Len(studysets) :
            /\ studysets[i].name = message.chain[1].studyset.name
            /\ studysets[i].id # None

\* C2 witness: the reload after a stored study set named "a" has been handled
C2_Witness ==
    /\ message.type = "LoadedStudySets"
    /\ message.chain # None
    /\ message.chain[1].stored
    /\ message.result.ok
    /\ message.chain[1].studyset.name = "a"
    /\ "a" \in NamesOf(studysets)

\* A step in which Oboete::update handles a message of the given type: every
\* step of Oboete but the completion of a task, which takes the task out of
\* `tasks`.
Handles(type) ==
    /\ unit = "Oboete"
    /\ message'.type = type
    /\ \A t \in BagToSet(tasks) : tasks' # tasks (-) One(t)

\* C3: handling LoadedStudySets(Err) empties the list whatever it held,
\* handling LoadedStudySets(Ok(list)) makes it list; either way no command is
\* returned (no task is added) and no other field of the application changes.
C3_LoadReplacesOrClears ==
    [][Handles("LoadedStudySets") =>
          /\ studysets' = IF message'.result.ok THEN message'.result.value ELSE <<>>
          /\ command' = None
          /\ tasks' = tasks
          /\ UNCHANGED <<context_page, show_context, context_title, header_title,
                         nav_active, current_page, db, new_studyset_name, store>>]_vars

\* C3 witness: a failed load has been handled while the table holds a row
C3_Witness ==
    /\ message.type = "LoadedStudySets"
    /\ ~message.result.ok
    /\ store # <<>>
    /\ studysets = <<>>

\* C4: state.studysets changes only in a step that handles LoadedStudySets,
\* and self.flashcards changes only in a step that handles SetFlashcards or
\* UpdatedStatus, which puts the message's whole list in its place.
C4_ListsOnlyReplaced ==
    [][/\ studysets' # studysets => Handles("LoadedStudySets")
       /\ flashcards' # flashcards =>
             /\ fc_message'.type \in {"SetFlashcards", "UpdatedStatus"}
             /\ flashcards' = fc_message'.flashcards]_vars

\* C4 witness: StudySetCreated has been handled for a study set the table
\* holds, and the list does not show it yet
C4_Witness ==
    /\ message.type = "StudySetCreated"
    /\ message.chain[1].stored
    /\ store # <<>>
    /\ studysets = <<>>

\* C5: every study set sent to upsert has no id and no folders, and as long
\* as no LoadedSingle filled the form since it was last reset (by new,
\* Upserted or ToggleCreatePage(None)), the flashcard Upsert emits has no id.
C5_IdsUnsetUntilPersisted ==
    /\ \A t \in BagToSet(tasks) :
          t.kind = "upsert" =>
              t.studyset[1].id = None /\ t.studyset[1].folders = <<>>
    /\ (fc_message.type = "Upsert" /\ ~loaded_single) =>
          /\ Len(commands) = 1
          /\ commands[1].type = "UpsertFlashcard"
          /\ commands[1].arg.id = None

\* C5 witness: Upsert emitted a typed-in card without id
C5_Witness ==
    /\ fc_message.type = "Upsert"
    /\ ~loaded_single
    /\ commands[1].arg.front = "t"
    /\ commands[1].arg.id = None

\* the status code of each grade in the data model
StatusCode(action) ==
    CASE action = "Bad" -> 1 [] action = "Ok" -> 2 [] action = "Good" -> 3

\* C6: UpdateFlashcardStatus(card, action) returns the single command
\* UpdateFlashcardStatus(card with status 1, 2, 3 for Bad, Ok, Good) and
\* changes nothing of the page.
C6_GradeSetsStatusCode ==
    [][fc_message'.type = "UpdateFlashcardStatus" =>
          /\ commands' =
                << [type |-> "UpdateFlashcardStatus",
                    arg  |-> [id     |-> fc_message'.flashcard.id,
                              front  |-> fc_message'.flashcard.front,
                              back   |-> fc_message'.flashcard.back,
                              status |-> StatusCode(fc_message'.action)]] >>
          /\ UNCHANGED <<flashcards, currently_studying_flashcard,
                         currently_studying_flashcard_side, new_edit_flashcard,
                         current_folder_id>>]_vars

\* C6 witness: a card of status 3 graded Bad goes out with status 1
C6_Witness ==
    /\ fc_message.type = "UpdateFlashcardStatus"
    /\ fc_message.flashcard.status = 3
    /\ fc_message.action = "Bad"
    /\ commands[1].arg.status = 1

\* C7: Upsert returns one UpsertFlashcard and no load; Upserted returns one
\* LoadFlashcards(current_folder_id) and leaves the form empty; in the
\* application CreateStudySet dispatches the upsert and StudySetCreated the
\* reload.
C7_ReloadFollowsResult ==
    /\ fc_message.type = "Upsert" =>
          Len(commands) = 1 /\ commands[1].type = "UpsertFlashcard"
    /\ fc_message.type = "Upserted" =>
          /\ commands = << [type |-> "LoadFlashcards", arg |-> current_folder_id] >>
          /\ new_edit_flashcard = [id |-> None, front |-> "", back |-> "", status |-> 0]
    /\ message.type = "CreateStudySet" =>
          command # None /\ command[1].kind = "upsert"
    /\ message.type = "StudySetCreated" =>
          command # None /\ command[1].kind = "load"

\* C7 witness: StudySetCreated has been handled and its reload is in flight
C7_Witness ==
    /\ message.type = "StudySetCreated"
    /\ command # None
    /\ command[1].kind = "load"
    /\ command[1] \in BagToSet(tasks)

\* the command types each message of Flashcards::update returns
CommandsOf(type) ==
    CASE type \in {"Upsert"}                -> <<"UpsertFlashcard">>
      [] type \in {"Upserted", "Load"}      -> <<"LoadFlashcards">>
      [] type = "ToggleCreatePage"          -> <<"ToggleCreateFlashcardPage">>
      [] type = "StudyFlashcards"           -> <<"OpenStudyFolderFlashcardsPage">>
      [] type = "UpdateFlashcardStatus"     -> <<"UpdateFlashcardStatus">>
      [] type = "Delete"                    -> <<"DeleteFlashcard">>
      [] type \in {"LoadedSingle", "SetFlashcards", "ContextPageFrontInput",
                   "ContextPageBackInput", "UpdatedStatus", "SwapFlashcardSide",
                   "new"}                   -> <<>>

\* C9: Flashcards::update returns at most one command, of the type that
\* belongs to the message, and none for the messages that only change state.
C9_OneCommandPerMessage ==
    /\ Len(commands) <= 1
    /\ [i \in 1..Len(commands) |-> commands[i].type] = CommandsOf(fc_message.type)

\* C9 witness: Delete of a saved card returned its DeleteFlashcard command
C9_Witness ==
    /\ fc_message.type = "Delete"
    /\ fc_message.flashcard_id = Some(1)
    /\ commands = << [type |-> "DeleteFlashcard", arg |-> Some(1)] >>

MessageOf(kind) ==
    CASE kind = "connect" -> "DbConnected"
      [] kind = "load"    -> "LoadedStudySets"
      [] kind = "upsert"  -> "StudySetCreated"

\* the start-up chain has run to its end
StartedUp == message.type = "LoadedStudySets" /\ message.chain = None

C11_OtherPageOpens ==
    [][Handles("ToggleContextPage") =>
          /\ context_page' = message'.context_page
          /\ context_title' = title(message'.context_page)
          /\ message'.context_page # context_page => show_context' = TRUE]_vars

\* C11 witness: the drawer shows a page other than the initial one, which
\* only a toggle to a different page brings about
C11_Witness ==
    /\ message.type = "ToggleContextPage"
    /\ message.context_page = "NewStudySet"
    /\ context_page = "NewStudySet"
    /\ context_title = "new-studyset"
    /\ show_context

\* C12: a failed upsert is handled like a successful one. Handling
\* CreateStudySet leaves the new study set's name and the drawer unchanged and
\* dispatches one upsert task, with or without a connection; every upsert task
\* that completes, stored or not, delivers one StudySetCreated; and handling
\* StudySetCreated hides the drawer, clears the name to "" and dispatches one
\* load task, whether the study set was stored or not.
C12_FailedUpsertLikeSuccessful ==
    [][/\ Handles("CreateStudySet") =>
            /\ UNCHANGED <<new_studyset_name, show_context>>
            /\ command' # None
            /\ command'[1].kind = "upsert"
            /\ command'[1].db = db
            /\ tasks' = tasks (+) One(command'[1])
       /\ \A t \in BagToSet(tasks) :
            (unit = "Oboete" /\ t.kind = "upsert" /\ tasks' = tasks (-) One(t)) =>
                \E m \in BagToSet(inbox') :
                    /\ m.type = "StudySetCreated"
                    /\ inbox' = inbox (+) One(m)
       /\ Handles("StudySetCreated") =>
            /\ show_context' = FALSE
            /\ new_studyset_name' = ""
            /\ command' # None
            /\ command'[1].kind = "load"
            /\ tasks' = tasks (+) One(command'[1])]_vars

\* C12 witness: StudySetCreated handled for a study set named "a" whose upsert,
\* dispatched without a connection, stored nothing
C12_Witness ==
    /\ message.type = "StudySetCreated"
    /\ message.chain # None
    /\ ~message.chain[1].stored
    /\ message.chain[1].studyset.name = "a"
    /\ db = None
    /\ command # None
    /\ command[1].kind = "load"
    /\ ~show_context
    /\ new_studyset_name = ""

\* C13: in every reachable state, after init and any sequence of
\* on_nav_select calls, current_page is the Page attached to the active nav
\* item (StudySets when the item carries no page data); initially that is
\* StudySets.
C13_PageFollowsActiveItem ==
    unit = "Oboete" =>
        current_page = IF NavData(nav_active) = None
                       THEN "StudySets"
                       ELSE NavData(nav_active)[1]

\* C13 witness: the second nav item was selected and its page is shown
C13_Witness ==
    /\ unit = "Oboete"
    /\ message.type = "on_nav_select"
    /\ message.id = "All Flashcards"
    /\ nav_active = "All Flashcards"
    /\ current_page = "AllFlashcards"

\* no task in flight and no result message waiting to be handled
Quiescent == tasks = EmptyBag /\ inbox = EmptyBag

C15_SideChangesOnlyOnSwap ==
    [][unit = "Flashcards" =>
          IF fc_message'.type = "SwapFlashcardSide"
          THEN /\ currently_studying_flashcard_side \in CurrentFlashcardSide
               /\ currently_studying_flashcard_side' \in CurrentFlashcardSide
               /\ currently_studying_flashcard_side' # currently_studying_flashcard_side
               /\ commands' = <<>>
               /\ UNCHANGED <<current_folder_id, flashcards, new_edit_flashcard,
                              currently_studying_flashcard>>
          ELSE UNCHANGED currently_studying_flashcard_side]_vars

\* C15 witness: a swap brought the side back to Front, the side it starts on,
\* while a card picked by UpdatedStatus or StudyFlashcards is being studied
C15_Witness ==
    /\ unit = "Flashcards"
    /\ fc_message.type = "SwapFlashcardSide"
    /\ currently_studying_flashcard_side = "Front"
    /\ currently_studying_flashcard \in Cards

====
